---- MODULE Spec2Model ----
(***************************************************************************)
(* Route planning with fuel stops (optimo_route).                          *)
(*                                                                         *)
(* The model follows one POST /api/route/ request through RouteView.post   *)
(* and RouteSerializer (validation, fetch_route_data, the stop loop, the   *)
(* cost computation), with the load_fuel_prices command inserting catalog  *)
(* rows one at a time beside it (specification Spec), and the serializer's *)
(* methods called on their own over a fixed catalog (specification         *)
(* SpecUnit).                                                              *)
(*                                                                         *)
(* Units.  Coordinates are micro-degrees.  Prices are cents (DecimalField  *)
(* with two decimal places).  A route distance is whole miles.  A Decimal  *)
(* is a record [coef, exp] standing for coef * 10^exp.  A message is a     *)
(* tuple of its pieces, the interpolated value among them.                 *)
(***************************************************************************)
EXTENDS Integers, Sequences, FiniteSets, TLC

\* ------------------------------------------------------------- constants

VEHICLE_RANGE_MILES == 500

VEHICLE_MPG == 10

\* is_within_usa's box, in micro-degrees.
LAT_MIN == 24396308

LAT_MAX == 49384358

LON_MIN == 0 - 125000000

LON_MAX == 0 - 66934570

\* 1 mile = 1609.34 m, as metres per hundred miles.
METERS_PER_100_MILES == 160934

\* decimal_places of FuelPrice.price_per_gallon.
PRICE_DECIMAL_PLACES == 2

\* ---------------------------------------------------------------- bounds

\* Rows in the CSV file the loader reads.
MaxRows == 2

\* Records of a catalog the methods are called on directly.
MaxCatalog == 3

\* Longest route distance (miles) the methods are called on directly.
MaxDistance == 1500

\* Fractional digits the database keeps in AVG(price_per_gallon).
AvgFracDigits == 3

\* ------------------------------------------------------------ input sets

Locations == {"London, UK", "Seattle, WA"}

\* First geocoder match: the corners of the box and their outside
\* neighbours, one micro-degree off each of the four bounds.
Places ==
    { <<LAT_MIN, LON_MIN>>, <<LAT_MAX, LON_MAX>>,
      <<LAT_MIN - 1, LON_MIN>>, <<LAT_MAX + 1, LON_MAX>>,
      <<LAT_MIN, LON_MIN - 1>>, <<LAT_MAX, LON_MAX + 1>> }

\* What one GET to the geocoder can produce: an error status, an empty
\* list, or a list whose first element is a place.
GeoResults ==
    { [kind |-> "http_error", lat |-> 0, lon |-> 0],
      [kind |-> "no_match", lat |-> 0, lon |-> 0] }
    \cup { [kind |-> "match", lat |-> p[1], lon |-> p[2]] : p \in Places }

\* Route lengths the routing provider answers with, in metres:
\* 30 mi, just under 500 mi, 500 mi, 1000 mi.
RouteMeters == {48280, 804669, 804670, 1609340}

\* What one GET to the routing provider can produce.
RouteResponses ==
    { [status |-> "error", json |-> TRUE, routes |-> <<>>],
      [status |-> "ok", json |-> FALSE, routes |-> <<>>],
      [status |-> "ok", json |-> TRUE, routes |-> <<>>] }
    \cup { [status |-> "ok", json |-> TRUE,
            routes |-> << [distance |-> m, geometry |-> "LineString"] >>]
           : m \in RouteMeters }

\* Rows of the CSV file; 'Retail Price' in thousandths of a dollar (none
\* ends in 5, where the nearest float decides the rounded cent).
CsvRows ==
    { [City |-> "Las Vegas", State |-> "NV", RetailPrice |-> 3000],
      [City |-> "Phoenix", State |-> "AZ", RetailPrice |-> 2500],
      [City |-> "Tucson", State |-> "AZ", RetailPrice |-> 2504] }

\* Distances the methods are called on directly: around every multiple of
\* the vehicle range.
Distances ==
    { d \in 0..MaxDistance : d % VEHICLE_RANGE_MILES \in {0, 1, 30, 499} }

\* ------------------------------------------------------------- helpers

RECURSIVE Pow10(_)
Pow10(n) == IF n <= 0 THEN 1 ELSE 10 * Pow10(n - 1)

\* a / b rounded to the nearest integer (a >= 0, b > 0).
DivRound(a, b) == (2 * a + b) \div (2 * b)

RECURSIVE SeqsUpTo(_, _)
SeqsUpTo(S, n) ==
    IF n = 0 THEN { <<>> }
    ELSE LET shorter == SeqsUpTo(S, n - 1)
         IN shorter \cup { Append(s, x) : s \in { t \in shorter : Len(t) = n - 1 }, x \in S }

RECURSIVE SumPrices(_)
SumPrices(rows) ==
    IF rows = <<>> THEN 0
    ELSE rows[1].price_per_gallon + SumPrices(Tail(rows))

\* ------------------------------------------------------------ the model

\* FuelPrice row as stored: the float price quantized to two places.
FuelPrice(city, state, retail_price) ==
    [ city |-> city, state |-> state,
      price_per_gallon |-> DivRound(retail_price, Pow10(3 - PRICE_DECIMAL_PLACES)) ]

NoExc == [type |-> "none", msg |-> <<>>, step |-> "none", origin |-> "none"]

NoGeo == [field |-> "none", location |-> "none", kind |-> "none", lat |-> 0, lon |-> 0]

NoCoords == <<0, 0>>

EmptyDict == [f \in {} |-> <<>>]

NoResponse == [status |-> 0, body |-> EmptyDict]

NoRouteResponse == [status |-> "none", json |-> TRUE, routes |-> <<>>]

NoDecimal == [coef |-> 0, exp |-> 0]

NO_FUEL_PRICES == << "No fuel prices available to calculate the total cost." >>

VARIABLES
    catalog,          \* FuelPrice rows, in insertion (id) order
    csv,              \* rows of the CSV file the loader has not inserted yet
    pc,               \* where the request (or the direct call) stands
    call,             \* the method called directly, "none" inside a request
    data,             \* request.data
    errors,           \* to_internal_value's errors dict
    failed,           \* history: fields whose validate_ method raised
    lastGeo,          \* history: the latest geocoder lookup and its answer
    exc,              \* the exception in flight (kept after it is handled)
    in_try,           \* whether control is inside post's try block
    response,         \* the HTTP response
    start_coords,     \* fetch_route_data's locals
    end_coords,
    route_response,
    api_url,          \* the coordinates in the routing provider's URL
    route_distance,
    route_geometry,
    optimal_stops,    \* find_optimal_fuel_stops' locals
    current_distance,
    todo,             \* iterations left in range(stops_required)
    total_cost,
    steps             \* history: the steps entered, in order

vars ==
    << catalog, csv, pc, call, data, errors, failed, lastGeo, exc, in_try,
       response, start_coords, end_coords, route_response, api_url,
       route_distance, route_geometry, optimal_stops, current_distance, todo,
       total_cost, steps >>

requestVars == << data, errors, failed, lastGeo, in_try, response >>

fetchVars == << start_coords, end_coords, route_response, api_url >>

stopVars == << optimal_stops, current_distance, todo >>

\* ------------------------------------------------------------ geocoding

\* is_within_usa with a fault: the bounds taken as exclusive.
is_within_usa_strict(lat, lon) ==
    (LAT_MIN < lat /\ lat < LAT_MAX) /\ (LON_MIN < lon /\ lon < LON_MAX)

is_within_usa(lat, lon) ==
    (LAT_MIN <= lat /\ lat <= LAT_MAX) /\ (LON_MIN <= lon /\ lon <= LON_MAX)

\* geocode_location on the geocoder's answer g: raise_for_status, the
\* empty-list check, then the first match's coordinates.
geocode_location(location, g) ==
    IF g.kind = "http_error"
    THEN [raised |-> TRUE, type |-> "HTTPError", origin |-> "geocoder",
          msg |-> << "geocoder error status" >>, coords |-> NoCoords]
    ELSE IF g.kind = "no_match"
    THEN [raised |-> TRUE, type |-> "ValueError", origin |-> "geocoder",
          msg |-> << "Location '", location, "' could not be geocoded." >>,
          coords |-> NoCoords]
    ELSE [raised |-> FALSE, type |-> "none", origin |-> "none", msg |-> <<>>,
          coords |-> << g.lat, g.lon >>]

validate_start_location(value, g) ==
    LET r == geocode_location(value, g)
    IN IF r.raised THEN r
       ELSE IF ~is_within_usa(r.coords[1], r.coords[2])
       THEN [r EXCEPT !.raised = TRUE, !.type = "ValidationError", !.origin = "bounds",
                      !.msg = << "Start location '", value, "' is not within the USA." >>]
       ELSE r

validate_finish_location(value, g) ==
    LET r == geocode_location(value, g)
    IN IF r.raised THEN r
       ELSE IF ~is_within_usa(r.coords[1], r.coords[2])
       THEN [r EXCEPT !.raised = TRUE, !.type = "ValidationError", !.origin = "bounds",
                      !.msg = << "Finish location '", value, "' is not within the USA." >>]
       ELSE r

\* ------------------------------------------------------- the catalog

\* load_fuel_prices: one FuelPrice.objects.create per CSV row, each its own
\* transaction.
LoadRow ==
    /\ csv # <<>>
    /\ catalog' = Append(catalog, FuelPrice(csv[1].City, csv[1].State, csv[1].RetailPrice))
    /\ csv' = Tail(csv)
    /\ UNCHANGED << pc, call, exc, route_distance, route_geometry, total_cost, steps >>
    /\ UNCHANGED << requestVars, fetchVars, stopVars >>

\* exists with a fault: the emptiness check left out.
exists_skipped(rows) == TRUE

\* fuel_prices.exists(): a query of its own, caching nothing.
exists(rows) == rows # <<>>

\* first with a fault: the ordering left out, so the row inserted first.
first_unordered(rows) == IF rows = <<>> THEN 0 ELSE 1

\* order_by('price_per_gallon').first(): a new LIMIT 1 query on every call;
\* among equal prices the row inserted first.  0 stands for None.
first(rows) ==
    IF rows = <<>> THEN 0
    ELSE CHOOSE i \in 1..Len(rows) :
           \A j \in 1..Len(rows) :
              \/ rows[j].price_per_gallon > rows[i].price_per_gallon
              \/ rows[j].price_per_gallon = rows[i].price_per_gallon /\ j >= i

\* aggregate(Avg('price_per_gallon')): the mean as the database returns
\* it, a decimal of AvgFracDigits fractional digits.  Asked only of a
\* non-empty table (the aggregate is None on an empty one).
Avg(rows) ==
    [ coef |-> DivRound(SumPrices(rows) * Pow10(AvgFracDigits - PRICE_DECIMAL_PLACES),
                        Len(rows)),
      exp |-> 0 - AvgFracDigits ]

\* ------------------------------------------------------------ the steps

\* Where a method returns to: its caller inside create, or the direct call.
Ret(next) == IF call = "none" THEN next ELSE "returned"

Raised(r, step) ==
    [type |-> r.type, msg |-> r.msg, step |-> step, origin |-> r.origin]

Looked(field, location, g) ==
    [field |-> field, location |-> location, kind |-> g.kind, lat |-> g.lat, lon |-> g.lon]

\* post, line 34: the serializer is built on request.data.
Post ==
    /\ pc = "idle"
    /\ \E s \in Locations, f \in Locations :
          data' = [start_location |-> s, finish_location |-> f]
    /\ pc' = "validate_start"
    /\ UNCHANGED << catalog, csv, call, errors, failed, lastGeo, exc, in_try, response,
                    route_distance, route_geometry, total_cost, steps >>
    /\ UNCHANGED << fetchVars, stopVars >>

\* is_valid's loop over the declared fields, one field: a ValidationError
\* of the validate_ method goes into errors under the field's name, any
\* other exception leaves is_valid.
RunValidation(field, step, r, g, next) ==
    /\ steps' = Append(steps, step)
    /\ lastGeo' = Looked(field, data[field], g)
    /\ failed' = IF r.raised THEN failed \cup {field} ELSE failed
    /\ IF r.raised /\ r.type = "ValidationError"
       THEN /\ errors' = errors @@ (field :> << r.msg >>)
            /\ pc' = next
            /\ exc' = exc
       ELSE IF r.raised
       THEN /\ exc' = Raised(r, step)
            /\ pc' = "raised"
            /\ errors' = errors
       ELSE /\ pc' = next
            /\ UNCHANGED << errors, exc >>
    /\ UNCHANGED << catalog, csv, call, data, in_try, response,
                    route_distance, route_geometry, total_cost >>
    /\ UNCHANGED << fetchVars, stopVars >>

RunValidationStart ==
    /\ pc = "validate_start"
    /\ \E g \in GeoResults :
          RunValidation("start_location", "validate_start_location",
                        validate_start_location(data.start_location, g), g,
                        "validate_finish")

RunValidationFinish ==
    /\ pc = "validate_finish"
    /\ \E g \in GeoResults :
          RunValidation("finish_location", "validate_finish_location",
                        validate_finish_location(data.finish_location, g), g,
                        "is_valid")

\* ValidationFails with a fault: is_valid never raises.
ValidationIgnored(errs) == FALSE

\* if errors: raise ValidationError(errors)
ValidationFails(errs) == DOMAIN errs # {}

\* The end of is_valid(raise_exception=True): the collected errors become
\* the 400 response keyed by field; without any, post enters its try block
\* and calls create.
IsValid ==
    /\ pc = "is_valid"
    /\ IF ValidationFails(errors)
       THEN /\ response' = [status |-> 400, body |-> errors]
            /\ pc' = "done"
            /\ in_try' = in_try
       ELSE /\ in_try' = TRUE
            /\ pc' = "fetch_geocode_start"
            /\ response' = response
    /\ UNCHANGED << catalog, csv, call, data, errors, failed, lastGeo, exc,
                    route_distance, route_geometry, total_cost, steps >>
    /\ UNCHANGED << fetchVars, stopVars >>

\* fetch_route_data, line 117.
FetchGeocodeStart ==
    /\ pc = "fetch_geocode_start"
    /\ steps' = Append(steps, "fetch_route_data")
    /\ \E g \in GeoResults :
          LET r == geocode_location(data.start_location, g)
          IN /\ lastGeo' = Looked("fetch_start", data.start_location, g)
             /\ IF r.raised
                THEN /\ exc' = Raised(r, "fetch_route_data")
                     /\ pc' = "raised"
                     /\ start_coords' = start_coords
                ELSE /\ start_coords' = r.coords
                     /\ pc' = "fetch_geocode_end"
                     /\ exc' = exc
    /\ UNCHANGED << catalog, csv, call, data, errors, failed, in_try, response,
                    end_coords, route_response, api_url,
                    route_distance, route_geometry, total_cost >>
    /\ UNCHANGED stopVars

\* fetch_route_data, line 118.
FetchGeocodeEnd ==
    /\ pc = "fetch_geocode_end"
    /\ \E g \in GeoResults :
          LET r == geocode_location(data.finish_location, g)
          IN /\ lastGeo' = Looked("fetch_end", data.finish_location, g)
             /\ IF r.raised
                THEN /\ exc' = Raised(r, "fetch_route_data")
                     /\ pc' = "raised"
                     /\ end_coords' = end_coords
                ELSE /\ end_coords' = r.coords
                     /\ pc' = "route_request"
                     /\ exc' = exc
    /\ UNCHANGED << catalog, csv, call, data, errors, failed, in_try, response,
                    start_coords, route_response, api_url,
                    route_distance, route_geometry, total_cost, steps >>
    /\ UNCHANGED stopVars

\* The URL of line 120: longitude before latitude, start before end.
ApiUrl(sc, ec) == [start |-> << sc[2], sc[1] >>, end |-> << ec[2], ec[1] >>]

\* fetch_route_data, lines 120-125: the GET to the routing provider.
RouteRequest ==
    /\ pc = "route_request"
    /\ api_url' = ApiUrl(start_coords, end_coords)
    /\ \E resp \in RouteResponses : route_response' = resp
    /\ steps' = Append(steps, "routing_provider")
    /\ pc' = "route_response"
    /\ UNCHANGED << catalog, csv, call, exc, start_coords, end_coords,
                    route_distance, route_geometry, total_cost >>
    /\ UNCHANGED << requestVars, stopVars >>

\* route_data['routes'][0]['distance'] / 1609.34, kept to whole miles.
MilesOf(meters) == (meters * 100) \div METERS_PER_100_MILES

\* fetch_route_data, lines 126-132: raise_for_status, json(), routes[0].
FetchRouteReturn ==
    /\ pc = "route_response"
    /\ IF route_response.status = "error"
       THEN /\ exc' = [type |-> "HTTPError", msg |-> << "routing error status" >>,
                       step |-> "fetch_route_data", origin |-> "routing_provider"]
            /\ pc' = "raised"
            /\ UNCHANGED << route_distance, route_geometry >>
       ELSE IF ~route_response.json
       THEN /\ exc' = [type |-> "ValueError", msg |-> << "Expecting value" >>,
                       step |-> "fetch_route_data", origin |-> "routing_provider"]
            /\ pc' = "raised"
            /\ UNCHANGED << route_distance, route_geometry >>
       ELSE IF route_response.routes = <<>>
       THEN /\ exc' = [type |-> "IndexError", msg |-> << "list index out of range" >>,
                       step |-> "fetch_route_data", origin |-> "routing_provider"]
            /\ pc' = "raised"
            /\ UNCHANGED << route_distance, route_geometry >>
       ELSE /\ route_distance' = MilesOf(route_response.routes[1].distance)
            /\ route_geometry' = route_response.routes[1].geometry
            /\ pc' = "stops_exists"
            /\ exc' = exc
    /\ start_coords' = NoCoords
    /\ end_coords' = NoCoords
    /\ route_response' = NoRouteResponse
    /\ api_url' = ApiUrl(NoCoords, NoCoords)
    /\ UNCHANGED << catalog, csv, call, total_cost, steps >>
    /\ UNCHANGED << requestVars, stopVars >>

\* stops_required with a fault: the quotient rounded up.
stops_required_ceil(distance) ==
    (distance + VEHICLE_RANGE_MILES - 1) \div VEHICLE_RANGE_MILES

\* int(route_distance // VEHICLE_RANGE_MILES)
stops_required(distance) == distance \div VEHICLE_RANGE_MILES

\* find_optimal_fuel_stops, lines 144-152: the emptiness check, then the
\* loop's locals.
FindStopsExists ==
    /\ pc = "stops_exists"
    /\ steps' = Append(steps, "find_optimal_fuel_stops")
    /\ IF ~exists(catalog)
       THEN /\ exc' = [type |-> "ValueError", msg |-> NO_FUEL_PRICES,
                       step |-> "find_optimal_fuel_stops", origin |-> "catalog"]
            /\ pc' = "raised"
            /\ UNCHANGED stopVars
       ELSE /\ optimal_stops' = <<>>
            /\ todo' = stops_required(route_distance)
            /\ current_distance' = 0
            /\ pc' = "stops_loop"
            /\ exc' = exc
    /\ UNCHANGED << catalog, csv, call, route_distance, route_geometry, total_cost >>
    /\ UNCHANGED << requestVars, fetchVars >>

\* The dict appended for one stop.
FuelStop(stop, distance) ==
    [ city |-> stop.city, state |-> stop.state,
      price_per_gallon |-> stop.price_per_gallon,
      distance_from_start |-> distance + VEHICLE_RANGE_MILES ]

\* find_optimal_fuel_stops, lines 154-165: one iteration of the loop, its
\* fuel_prices.first() a query against the catalog as it is now.
FindStopsIter ==
    /\ pc = "stops_loop"
    /\ todo > 0
    /\ LET stop == first(catalog)
       IN IF stop = 0
          THEN /\ exc' = [type |-> "ValueError", msg |-> << "No available fuel prices." >>,
                          step |-> "find_optimal_fuel_stops", origin |-> "catalog"]
               /\ pc' = "raised"
               /\ UNCHANGED stopVars
          ELSE /\ optimal_stops' = Append(optimal_stops, FuelStop(catalog[stop], current_distance))
               /\ current_distance' = current_distance + VEHICLE_RANGE_MILES
               /\ todo' = todo - 1
               /\ UNCHANGED << pc, exc >>
    /\ UNCHANGED << catalog, csv, call, route_distance, route_geometry, total_cost, steps >>
    /\ UNCHANGED << requestVars, fetchVars >>

\* find_optimal_fuel_stops, line 167.
FindStopsReturn ==
    /\ pc = "stops_loop"
    /\ todo = 0
    /\ pc' = Ret("cost")
    /\ UNCHANGED << catalog, csv, call, exc, route_distance, route_geometry, total_cost, steps >>
    /\ UNCHANGED << requestVars, fetchVars, stopVars >>

\* Decimal(route_distance) / Decimal(VEHICLE_MPG), in tenths of a gallon.
total_gallons(distance) == [coef |-> (distance * 10) \div VEHICLE_MPG, exp |-> 0 - 1]

\* Decimal * Decimal.
DecMul(a, b) == [coef |-> a.coef * b.coef, exp |-> a.exp + b.exp]

\* if average_fuel_price is None
AverageIsNone(rows) == rows = <<>>

\* calculate_total_cost: one aggregate query, then the product.
CalculateTotalCost ==
    /\ pc = "cost"
    /\ steps' = Append(steps, "calculate_total_cost")
    /\ IF AverageIsNone(catalog)
       THEN /\ exc' = [type |-> "ValueError", msg |-> NO_FUEL_PRICES,
                       step |-> "calculate_total_cost", origin |-> "catalog"]
            /\ pc' = "raised"
            /\ total_cost' = total_cost
       ELSE /\ total_cost' = DecMul(total_gallons(route_distance), Avg(catalog))
            /\ pc' = Ret("assemble")
            /\ exc' = exc
    /\ UNCHANGED << catalog, csv, call, route_distance, route_geometry >>
    /\ UNCHANGED << requestVars, fetchVars, stopVars >>

\* create, lines 214-218, and post, line 40.
CreateReturn ==
    /\ pc = "assemble"
    /\ steps' = Append(steps, "assemble")
    /\ response' = [status |-> 200,
                    body |-> [route |-> route_geometry, fuel_stops |-> optimal_stops,
                              total_cost |-> total_cost]]
    /\ pc' = "done"
    /\ UNCHANGED << catalog, csv, call, data, errors, failed, lastGeo, exc, in_try,
                    route_distance, route_geometry, total_cost >>
    /\ UNCHANGED << fetchVars, stopVars >>

\* post's except clauses: HTTPError, then ValueError, inside the try block
\* only; anything else leaves post and becomes the server's error page.
ExceptResponse(e, inside) ==
    IF inside /\ e.type = "HTTPError"
    THEN [status |-> 500, body |-> [error |-> << "Failed to fetch route data: " >> \o e.msg]]
    ELSE IF inside /\ e.type = "ValueError"
    THEN [status |-> 400, body |-> [error |-> e.msg]]
    ELSE [status |-> 500, body |-> [unhandled |-> e.type]]

ViewExcept ==
    /\ pc = "raised"
    /\ call = "none"
    /\ response' = ExceptResponse(exc, in_try)
    /\ pc' = "done"
    /\ UNCHANGED << catalog, csv, call, data, errors, failed, lastGeo, exc, in_try,
                    route_distance, route_geometry, total_cost, steps >>
    /\ UNCHANGED << fetchVars, stopVars >>

\* ----------------------------------------------------- specifications

Quiet ==
    /\ call = "none"
    /\ data = [start_location |-> "none", finish_location |-> "none"]
    /\ errors = EmptyDict
    /\ failed = {}
    /\ lastGeo = NoGeo
    /\ exc = NoExc
    /\ in_try = FALSE
    /\ response = NoResponse
    /\ start_coords = NoCoords
    /\ end_coords = NoCoords
    /\ route_response = NoRouteResponse
    /\ api_url = ApiUrl(NoCoords, NoCoords)
    /\ route_geometry = "none"
    /\ optimal_stops = <<>>
    /\ current_distance = 0
    /\ todo = 0
    /\ total_cost = NoDecimal
    /\ steps = <<>>

\* An empty catalog, a CSV file waiting to be loaded, a request not yet
\* posted.
Init ==
    /\ Quiet
    /\ catalog = <<>>
    /\ csv \in SeqsUpTo(CsvRows, MaxRows)
    /\ pc = "idle"
    /\ route_distance = 0

Next ==
    \/ LoadRow
    \/ Post
    \/ RunValidationStart
    \/ RunValidationFinish
    \/ IsValid
    \/ FetchGeocodeStart
    \/ FetchGeocodeEnd
    \/ RouteRequest
    \/ FetchRouteReturn
    \/ FindStopsExists
    \/ FindStopsIter
    \/ FindStopsReturn
    \/ CalculateTotalCost
    \/ CreateReturn
    \/ ViewExcept

Spec == Init /\ [][Next]_vars

\* A direct call of one method on a catalog that stays as it is.
CallFindStops ==
    /\ pc = "unit"
    /\ call' = "find_optimal_fuel_stops"
    /\ pc' = "stops_exists"
    /\ UNCHANGED << catalog, csv, exc, route_distance, route_geometry, total_cost, steps >>
    /\ UNCHANGED << requestVars, fetchVars, stopVars >>

CallCalculateTotalCost ==
    /\ pc = "unit"
    /\ call' = "calculate_total_cost"
    /\ pc' = "cost"
    /\ UNCHANGED << catalog, csv, exc, route_distance, route_geometry, total_cost, steps >>
    /\ UNCHANGED << requestVars, fetchVars, stopVars >>

Catalogs ==
    { [i \in 1..Len(rows) |-> FuelPrice(rows[i].City, rows[i].State, rows[i].RetailPrice)]
      : rows \in SeqsUpTo(CsvRows, MaxCatalog) }

InitUnit ==
    /\ Quiet
    /\ catalog \in Catalogs
    /\ csv = <<>>
    /\ pc = "unit"
    /\ route_distance \in Distances

NextUnit ==
    \/ CallFindStops
    \/ CallCalculateTotalCost
    \/ FindStopsExists
    \/ FindStopsIter
    \/ FindStopsReturn
    \/ CalculateTotalCost

SpecUnit == InitUnit /\ [][NextUnit]_vars

\* ---------------------------------------------------------- properties

\* The supported bounding box as the specification states it.
InBox(lat, lon) ==
    /\ 24396308 <= lat /\ lat <= 49384358
    /\ 0 - 125000000 <= lon /\ lon <= 0 - 66934570

Prices(rows) == { rows[i].price_per_gallon : i \in 1..Len(rows) }

IsCheapest(r, rows) ==
    /\ \E i \in 1..Len(rows) : rows[i] = r
    /\ \A q \in Prices(rows) : r.price_per_gallon <= q

SameRecord(stop, r) ==
    /\ stop.city = r.city
    /\ stop.state = r.state
    /\ stop.price_per_gallon = r.price_per_gallon

ReturnedFrom(method) == pc = "returned" /\ call = method

\* C1: on a non-empty catalog plan_stops(d) returns exactly floor(d / 500)
\* stops, the i-th at distance i * 500, all carrying the city, state and
\* price of one cheapest catalog record; none for d < 500, one at 500 for
\* d = 500.
C1_StopsAtEveryRange ==
    ReturnedFrom("find_optimal_fuel_stops") =>
       LET n == Len(optimal_stops)
       IN /\ catalog # <<>>
          /\ 500 * n <= route_distance /\ route_distance < 500 * (n + 1)
          /\ \A i \in 1..n : optimal_stops[i].distance_from_start = i * 500
          /\ \E k \in 1..Len(catalog) :
                /\ IsCheapest(catalog[k], catalog)
                /\ \A i \in 1..n : SameRecord(optimal_stops[i], catalog[k])
          /\ (route_distance < 500 => optimal_stops = <<>>)
          /\ (route_distance = 500 =>
                n = 1 /\ optimal_stops[1].distance_from_start = 500)

\* C1's case: three stops from a catalog whose cheapest record was not the
\* first one inserted.
C1_Witness ==
    /\ ReturnedFrom("find_optimal_fuel_stops")
    /\ Len(optimal_stops) = 3
    /\ Len(catalog) >= 2
    /\ ~IsCheapest(catalog[1], catalog)

\* C2: on an empty catalog plan_stops and estimate_cost fail with the
\* no-fuel-data error for every distance, before any stop is computed, and
\* never return.
C2_EmptyCatalogFails ==
    (catalog = <<>> /\ call \in {"find_optimal_fuel_stops", "calculate_total_cost"}) =>
       /\ pc \in {"stops_exists", "cost", "raised"}
       /\ optimal_stops = <<>>
       /\ todo = 0
       /\ total_cost = NoDecimal
       /\ (pc = "raised" =>
             /\ exc.type = "ValueError"
             /\ exc.msg = << "No fuel prices available to calculate the total cost." >>
             /\ exc.step = call)

\* C2's case: plan_stops has failed on an empty catalog for distance 0,
\* where no stop would have been emitted.
C2_Witness ==
    /\ catalog = <<>>
    /\ call = "find_optimal_fuel_stops"
    /\ route_distance = 0
    /\ pc = "raised"

FieldDecidedByBox(field, label) ==
    /\ lastGeo.field = field
    /\ lastGeo.location = data[field]
    /\ (field \in DOMAIN errors) <=> ~InBox(lastGeo.lat, lastGeo.lon)
    /\ (field \in DOMAIN errors) =>
          errors[field] = << << label, data[field], "' is not within the USA." >> >>

\* C4: when the geocoder returns a match, validation of the field succeeds
\* iff the first match lies in the box (bounds inclusive); otherwise the
\* error is reported under that field with the message naming the location.
C4_BoundsDecideValidation ==
    /\ (pc = "validate_finish" /\ lastGeo.kind = "match") =>
          FieldDecidedByBox("start_location", "Start location '")
    /\ (pc = "is_valid" /\ lastGeo.kind = "match") =>
          FieldDecidedByBox("finish_location", "Finish location '")
    /\ (pc = "raised" /\ lastGeo.field \in {"start_location", "finish_location"}) =>
          lastGeo.kind # "match"
    /\ (pc = "done" /\ DOMAIN errors # {} /\ exc = NoExc) =>
          response = [status |-> 400, body |-> errors]

\* C4's case: the start location was matched outside the box and rejected,
\* the finish location matched on the box's edge and accepted.
C4_Witness ==
    /\ pc = "is_valid"
    /\ data.start_location = "London, UK"
    /\ DOMAIN errors = {"start_location"}
    /\ lastGeo.kind = "match"
    /\ lastGeo.lat = 49384358
    /\ lastGeo.lon = 0 - 66934570

\* C5: every failure after validation is answered with {error: string}: a
\* routing-provider failure with status 500, an empty catalog with status
\* 400 and the no-fuel-prices message; none escapes unhandled.
C5_DownstreamErrorsMapped ==
    (pc = "done" /\ in_try /\ exc # NoExc) =>
       /\ DOMAIN response.body = {"error"}
       /\ (exc.origin = "routing_provider" => response.status = 500)
       /\ (exc.origin = "catalog" =>
             /\ response.status = 400
             /\ response.body.error =
                   << "No fuel prices available to calculate the total cost." >>)

Rank(step) ==
    CASE step = "validate_start_location" -> 1
      [] step = "validate_finish_location" -> 2
      [] step = "fetch_route_data" -> 3
      [] step = "routing_provider" -> 4
      [] step = "find_optimal_fuel_stops" -> 5
      [] step = "calculate_total_cost" -> 6
      [] step = "assemble" -> 7
      [] OTHER -> 0

\* The call to the routing provider is part of the fetch route step.
StepOf(entry) == IF entry = "routing_provider" THEN "fetch_route_data" ELSE entry

ResultKeys == {"route", "fuel_stops", "total_cost"}

\* C6: the steps run in the order validate start, validate finish, fetch
\* route, plan stops, estimate cost, assemble; the routing provider is
\* called only after both validations succeeded; nothing runs after the
\* first failure; a response holds all of route, fuel_stops and total_cost
\* or none of them.
C6_StrictOrderNoPartial ==
    /\ \A i \in 1..Len(steps) : Rank(steps[i]) = i
    /\ (\E i \in 1..Len(steps) : steps[i] = "routing_provider") =>
          failed = {} /\ DOMAIN errors = {}
    /\ exc # NoExc => StepOf(steps[Len(steps)]) = exc.step
    /\ (DOMAIN response.body) \cap ResultKeys \in { {}, ResultKeys }
    /\ (ResultKeys \subseteq DOMAIN response.body) =>
          /\ response.status = 200
          /\ exc = NoExc
          /\ Len(steps) = 7
    /\ response.status = 200 => ResultKeys \subseteq DOMAIN response.body

\* C6's case: the plan failed at plan stops, after the route was fetched,
\* and was answered without the later steps.
C6_Witness ==
    /\ pc = "done"
    /\ exc.step = "find_optimal_fuel_stops"
    /\ Len(steps) = 5
    /\ response.status = 400

\* C7: estimate_cost(d) is exactly (d / 10) * mean(price), the mean of all
\* catalog records: total_cost * 1000 * n = d * (sum of prices in cents),
\* with total_cost = coef * 10^exp.
C7_CostExact ==
    ReturnedFrom("calculate_total_cost") =>
       total_cost.coef * Len(catalog) =
          route_distance * SumPrices(catalog) * Pow10(0 - total_cost.exp - 3)

\* C8: all stops of one plan_stops result carry the same catalog record,
\* whatever rows the loader inserts while the call runs.
C8_OneRecordPerResult ==
    \A i, j \in 1..Len(optimal_stops) : SameRecord(optimal_stops[i], optimal_stops[j])

\* C9: whenever the routing provider is invoked, both coordinate pairs
\* sent to it (longitude first) lie inside the supported bounding box.
C9_RoutedInsideBox ==
    pc = "route_response" =>
       /\ InBox(api_url.start[2], api_url.start[1])
       /\ InBox(api_url.end[2], api_url.end[1])

\* C10: in a returned stop sequence distance_from_start rises by exactly
\* 500 from stop to stop, the last stop is not beyond the route's end, and
\* less than 500 remains after the last stop (or of a route without stops).
C10_StopsWithinRoute ==
    ReturnedFrom("find_optimal_fuel_stops") =>
       LET n == Len(optimal_stops)
           last == IF n = 0 THEN 0 ELSE optimal_stops[n].distance_from_start
       IN /\ \A i \in 1..(n - 1) :
                /\ optimal_stops[i].distance_from_start
                      < optimal_stops[i + 1].distance_from_start
                /\ optimal_stops[i + 1].distance_from_start
                      - optimal_stops[i].distance_from_start = VEHICLE_RANGE_MILES
          /\ last <= route_distance
          /\ route_distance - last < VEHICLE_RANGE_MILES

\* C10's case: two stops on a route that ends one mile short of a third.
C10_Witness ==
    /\ ReturnedFrom("find_optimal_fuel_stops")
    /\ route_distance = 1499
    /\ Len(optimal_stops) = 2

====
